---- MODULE Spec2Model ----
(***************************************************************************)
(* Model of the JK BMS Bluetooth client: the named-future correlator       *)
(* (bt.py FuturesPool / FutureContext), the inbound frame reassembler and   *)
(* the outbound frame encoder (jikong.py), the request/response cycle       *)
(* (JKBt._q) and the scan-assisted connect loop                             *)
(* (BtBms._connect_with_scanner).                                           *)
(***************************************************************************)
EXTENDS Integers, Sequences, FiniteSets, TLC

(* ------------------------------------------------------------------ *)
(* Bounds of the model.                                                *)
(* ------------------------------------------------------------------ *)
\* tags used by the correlator scenarios are 1..MaxTag
MaxTag == 2
\* number of caller tasks using the correlator concurrently
NumTasks == 2
\* longest tuple name passed to acquire / wait_for
MaxGroup == 2
\* values handed to set_result are 1..MaxVal
MaxVal == 1
\* fragments are counted up to MaxFrags; the streams with garbage arrive in
\* at most MaxFrags fragments
MaxFrags == 2

Tags == 1..MaxTag
Tasks == 1..NumTasks
\* a value is a byte sequence (a message); the correlator scenarios use one byte
Vals == {<<v>> : v \in 1..MaxVal}
NoVal == <<>>
\* a name is a tag (a sequence of length 1) or a tuple of distinct tags
Names == {<<n>> : n \in Tags} \cup {[i \in 1..k |-> i] : k \in 2..MaxGroup}
\* enough future objects for every dictionary entry and every awaited future
FutIds == 1..(MaxTag + NumTasks * MaxGroup)
NoFut == 0

VARIABLES
  futures,   \* FuturesPool._futures: name -> future object (its id)
  fstate,    \* state of each asyncio.Future object
  task,      \* the caller tasks that acquire and wait
  raised,    \* the exception the last correlator call or fragment handler raised
  buffer,    \* JKBt._buffer, the accumulation buffer
  resp_table,\* JKBt._resp_table: response type -> last message recorded
  cbcalls,   \* the observer calls made, in order (one observer per response type)
  accepted,  \* the buffers handed to _decode_msg, in order
  input,     \* what the device sends: the byte stream and how it was built
  pos,       \* number of bytes of the stream delivered so far
  nfrag,     \* number of fragments delivered so far (MaxFrags + 1: more)
  hdrfrags,  \* number of fragments after the first that began with the header
  wire,      \* the frames written to the device, in order
  connected, \* client.is_connected
  cpc,       \* where _connect_with_scanner stands
  attempt,   \* its local variable attempt
  tries,     \* the connect attempts it has made
  scanning,  \* the scanner is started and not stopped
  sleeps,    \* the delays it has slept, in order, as <<numerator, denominator>>
  lasterr,   \* the exception of the last failed attempt
  cerr,      \* the exception the connect operation raised to its caller
  log,       \* the calls the session made on scanner, client and clock, in order
  visible,   \* the target address is among scanner.discovered_devices
  keep_alive,\* BtBms.keep_alive
  subscribed,\* the characteristics on which notifications are subscribed
  notify     \* the last call of start_notify: its candidates, the ones on which
             \* subscribing fails, the ones tried, what it returned or raised

Range(s) == {s[i] : i \in DOMAIN s}

frameVars == <<buffer, resp_table, cbcalls, accepted, input, pos, nfrag, hdrfrags>>
sessVars == <<keep_alive, subscribed, notify>>
connVars == <<cpc, attempt, tries, scanning, sleeps, lasterr, cerr, log, visible, keep_alive, subscribed,
              notify>>
linkVars == <<wire, connected, cpc, attempt, tries, scanning, sleeps, lasterr, cerr, log, visible,
              keep_alive, subscribed, notify>>
vars == <<futures, fstate, task, raised, buffer, resp_table, cbcalls, accepted, input, pos, nfrag,
          hdrfrags, wire, connected, cpc, attempt, tries, scanning, sleeps, lasterr, cerr,
          log, visible, keep_alive, subscribed, notify>>

\* the characteristic JKBt subscribes on and writes to (CHAR_UUID)
CHAR == 1

\* no call of start_notify was made; ret and err are <<>> for none, <<c>> for
\* the candidate returned or the candidate whose error was raised
NoNotify == [cands |-> <<>>, fails |-> {}, tried |-> <<>>, ret |-> <<>>, err |-> <<>>]

\* the session is connected and nothing was written yet
LinkUp ==
  /\ wire = <<>>
  /\ connected = TRUE
  /\ cpc = "connected"
  /\ attempt = 1
  /\ tries = 0
  /\ scanning = FALSE
  /\ sleeps = <<>>
  /\ lasterr = "none"
  /\ cerr = "none"
  /\ log = <<>>
  /\ visible = TRUE
  /\ keep_alive = FALSE
  /\ subscribed = {CHAR}
  /\ notify = NoNotify

NoInput == [kind |-> "none", stream |-> <<>>, msg |-> <<>>, glen |-> 0]

\* the frame engine at construction (jikong.py 57-60), nothing to receive
FrameIdle ==
  /\ buffer = <<>>
  /\ resp_table = <<>>
  /\ cbcalls = <<>>
  /\ accepted = <<>>
  /\ input = NoInput
  /\ pos = 0
  /\ nfrag = 0
  /\ hdrfrags = 0

(* ------------------------------------------------------------------ *)
(* asyncio.Future objects.                                             *)
(* ------------------------------------------------------------------ *)
FreeFut == [st |-> "free", val |-> NoVal]
PendingFut == [st |-> "pending", val |-> NoVal]

\* asyncio.Future(): the object created is distinct from every live one
NewFut(S) == CHOOSE f \in FutIds : S[f].st = "free" /\ \A g \in FutIds : S[g].st = "free" => f <= g

\* dict.get(name, None)
Get(F, n) == IF n \in DOMAIN F THEN F[n] ELSE NoFut

\* dict.pop(name, None)
Pop(F, n) == [m \in DOMAIN F \ {n} |-> F[m]]

(* ------------------------------------------------------------------ *)
(* FuturesPool (bt.py 28-72).  P is [futures, fstate].                 *)
(* ------------------------------------------------------------------ *)
Pool == [futures |-> futures, fstate |-> fstate]

\* mutation: the assertion is dropped and the entry overwritten
acquire1_overwrite(P, n) ==
  LET f == NewFut(P.fstate)
  IN  [futures |-> [m \in DOMAIN P.futures \cup {n} |-> IF m = n THEN f ELSE P.futures[m]],
       fstate |-> [P.fstate EXCEPT ![f] = PendingFut],
       err |-> "none"]

\* acquire of one name: assert, create the future, store it
acquire1(P, n) ==
  IF n \in DOMAIN P.futures
  THEN [futures |-> P.futures, fstate |-> P.fstate, err |-> "AssertionError"]
  ELSE LET f == NewFut(P.fstate)
       IN  [futures |-> [m \in DOMAIN P.futures \cup {n} |-> IF m = n THEN f ELSE P.futures[m]],
            fstate |-> [P.fstate EXCEPT ![f] = PendingFut],
            err |-> "none"]

\* acquire of a tuple: tuple(self.acquire(n) for n in name) registers the
\* sub-names in order and stops at the first assertion that fails
RECURSIVE acquire(_, _)
acquire(P, name) ==
  IF name = <<>>
  THEN [futures |-> P.futures, fstate |-> P.fstate, err |-> "none"]
  ELSE LET R == acquire1(P, Head(name))
       IN  IF R.err # "none" THEN R
           ELSE acquire([futures |-> R.futures, fstate |-> R.fstate], Tail(name))

\* mutation: set_result never resolves a future
set_result_noop(P, n, v) == [fstate |-> P.fstate, err |-> "none"]

\* set_result: a no-op without an entry; Future.set_result raises
\* InvalidStateError on a future that is already done or cancelled
set_result(P, n, v) ==
  LET f == Get(P.futures, n)
  IN  IF f = NoFut THEN [fstate |-> P.fstate, err |-> "none"]
      ELSE IF P.fstate[f].st = "pending"
           THEN [fstate |-> [P.fstate EXCEPT ![f] = [st |-> "result", val |-> v]], err |-> "none"]
           ELSE [fstate |-> P.fstate, err |-> "InvalidStateError"]

\* Future.cancel(): changes a pending future only
Cancel(S, fs) == [f \in FutIds |-> IF f \in fs /\ S[f].st = "pending"
                                   THEN [st |-> "cancelled", val |-> NoVal] ELSE S[f]]

\* clear: cancel every stored future, then empty the dictionary
clear(P) == [futures |-> <<>>, fstate |-> Cancel(P.fstate, Range(P.futures))]

\* remove: pops the name, or every sub-name of a tuple, whatever is stored
remove(F, name) == [m \in DOMAIN F \ Range(name) |-> F[m]]

(* ------------------------------------------------------------------ *)
(* Caller tasks.  A task acquires a name, optionally inside the         *)
(* FutureContext scope (with ...:), and then awaits wait_for(name).     *)
(* A tuple name is awaited through asyncio.gather, one sub-wait (with   *)
(* its own timer) per sub-name.                                         *)
(* ------------------------------------------------------------------ *)
IdleTask == [pc |-> "idle", name |-> <<>>, scoped |-> FALSE, subs |-> <<>>,
             exc |-> "none", outcome |-> "none", val |-> NoVal]

\* one sub-wait of wait_for: the future it awaits, and how it ended
NoSub(n) == [tag |-> n, fid |-> NoFut, st |-> "raised", exc |-> "TypeError", val |-> NoVal, timer |-> FALSE]
WaitSub(n, f) == [tag |-> n, fid |-> f, st |-> "waiting", exc |-> "none", val |-> NoVal, timer |-> FALSE]


\* a future object nothing refers to any more is garbage
Collect(F, S, T) ==
  LET live == Range(F) \cup {T[t].subs[i].fid : <<t, i>> \in {x \in (DOMAIN T) \X (1..MaxGroup) :
                                   x[2] \in DOMAIN T[x[1]].subs /\ T[x[1]].subs[x[2]].st = "waiting"}}
  IN  [f \in FutIds |-> IF f \in live THEN S[f] ELSE FreeFut]

\* the first exception among the sub-waits that have ended, in list order
FirstExc(subs) ==
  IF \E i \in DOMAIN subs : subs[i].st = "raised"
  THEN subs[CHOOSE i \in DOMAIN subs : subs[i].st = "raised" /\ \A j \in DOMAIN subs : subs[j].st = "raised" => i <= j].exc
  ELSE "none"

\* how a sub-wait ends once its future is done
EndOf(sub, S) ==
  IF S[sub.fid].st = "result"
  THEN [tag |-> sub.tag, fid |-> NoFut, st |-> "returned", exc |-> "none",
        val |-> S[sub.fid].val, timer |-> FALSE]
  ELSE [tag |-> sub.tag, fid |-> NoFut, st |-> "raised",
        exc |-> IF sub.timer THEN "TimeoutError" ELSE "CancelledError",
        val |-> NoVal, timer |-> FALSE]

\* what is kept of a task whose wait has ended: its name, its outcome, and the
\* sub-waits that still run
Ended(tk, outcome, val) ==
  [pc |-> "done", name |-> tk.name, scoped |-> FALSE,
   subs |-> [i \in DOMAIN tk.subs |-> IF tk.subs[i].st = "waiting" THEN tk.subs[i]
                                       ELSE [tag |-> tk.subs[i].tag, fid |-> NoFut, st |-> "ended",
                                             exc |-> "none", val |-> NoVal, timer |-> FALSE]],
   exc |-> "none", outcome |-> outcome, val |-> val]

\* with self._fetch_futures.acquire(name): / pool.acquire(name)
\* (bt.py 35-43; a failed acquire never enters the scope, so nothing is removed)
Acquire(t, name, scoped) ==
  /\ task[t].pc = "idle"
  \* the tasks are interchangeable: they start in the order of their numbers
  /\ \A u \in Tasks : u < t => task[u].pc # "idle"
  /\ LET R == acquire(Pool, name)
     IN  /\ futures' = R.futures
         /\ fstate' = R.fstate
         /\ task' = [task EXCEPT ![t] = [IdleTask EXCEPT
                        !.pc = IF R.err = "none" THEN "acquired" ELSE "failed",
                        !.name = name, !.scoped = scoped, !.exc = R.err]]
  /\ raised' = "none"
  /\ UNCHANGED <<frameVars, linkVars>>

\* the body of the scope raises before wait_for is reached:
\* FutureContext.__exit__ removes the name (bt.py 83-84)
ExitScope(t) ==
  /\ task[t].pc = "acquired"
  /\ task[t].scoped
  /\ LET F == remove(futures, task[t].name)
         T == [task EXCEPT ![t] = Ended(task[t], "aborted", NoVal)]
     IN  /\ futures' = F
         /\ task' = T
         /\ fstate' = Collect(F, fstate, T)
  /\ raised' = "none"
  /\ UNCHANGED <<frameVars, linkVars>>

\* wait_for starts (bt.py 62-68): every sub-wait takes self._futures.get(name);
\* awaiting None raises TypeError at once.  A single name is awaited in the
\* caller itself, so its failure ends the wait (finally: remove, then __exit__).
StartWait(t) ==
  /\ task[t].pc = "acquired"
  /\ LET nm == task[t].name
         subs == [i \in DOMAIN nm |-> IF Get(futures, nm[i]) = NoFut THEN NoSub(nm[i])
                                      ELSE WaitSub(nm[i], Get(futures, nm[i]))]
         single == Len(nm) = 1
         ended == single /\ subs[1].st = "raised"
         W == [task[t] EXCEPT !.subs = subs, !.exc = FirstExc(subs), !.pc = "waiting"]
         T == [task EXCEPT ![t] = IF ended THEN Ended(W, "TypeError", NoVal) ELSE W]
     IN  /\ task' = T
         /\ futures' = futures
         /\ fstate' = Collect(futures, fstate, T)
  /\ raised' = "none"
  /\ UNCHANGED <<frameVars, linkVars>>

\* the timer of one asyncio.wait_for expires: the awaited future is cancelled
TimerFire(t, i) ==
  /\ i \in DOMAIN task[t].subs
  /\ task[t].subs[i].st = "waiting"
  /\ fstate[task[t].subs[i].fid].st = "pending"
  /\ fstate' = Cancel(fstate, {task[t].subs[i].fid})
  /\ task' = [task EXCEPT ![t].subs[i].timer = TRUE]
  /\ futures' = futures
  /\ raised' = "none"
  /\ UNCHANGED <<frameVars, linkVars>>

\* a sub-wait is resumed with its future done (bt.py 67-72): it returns the
\* value or raises, and the finally clause removes its name.  For a single
\* name this is the end of wait_for, and of the scope when there is one.
ResumeSub(t, i) ==
  /\ i \in DOMAIN task[t].subs
  /\ task[t].subs[i].st = "waiting"
  /\ fstate[task[t].subs[i].fid].st \in {"result", "cancelled"}
  /\ LET sub == EndOf(task[t].subs[i], fstate)
         subs == [task[t].subs EXCEPT ![i] = sub]
         single == Len(task[t].name) = 1
         F1 == remove(futures, <<sub.tag>>)
         F == IF single /\ task[t].scoped THEN remove(F1, task[t].name) ELSE F1
         W == [task[t] EXCEPT !.subs = subs, !.exc = IF @ # "none" THEN @ ELSE sub.exc]
         T == [task EXCEPT ![t] =
                 IF task[t].pc = "done" THEN Ended(W, task[t].outcome, task[t].val)
                 ELSE IF single THEN Ended(W, IF sub.st = "returned" THEN "value" ELSE sub.exc, sub.val)
                 ELSE W]
     IN  /\ futures' = F
         /\ task' = T
         /\ fstate' = Collect(F, fstate, T)
  /\ raised' = "none"
  /\ UNCHANGED <<frameVars, linkVars>>

\* asyncio.gather(..., return_exceptions=False) completes (bt.py 63-65): with
\* the first exception of a sub-wait, the other sub-waits running on, or with
\* all values.  Leaving the scope removes every sub-name.
OuterResume(t) ==
  /\ task[t].pc = "waiting"
  /\ Len(task[t].name) > 1
  /\ \/ task[t].exc # "none"
     \/ \A i \in DOMAIN task[t].subs : task[t].subs[i].st = "returned"
  /\ LET F == IF task[t].scoped THEN remove(futures, task[t].name) ELSE futures
         T == [task EXCEPT ![t] = Ended(task[t], IF task[t].exc # "none" THEN task[t].exc ELSE "value", NoVal)]
     IN  /\ futures' = F
         /\ task' = T
         /\ fstate' = Collect(F, fstate, T)
  /\ raised' = "none"
  /\ UNCHANGED <<frameVars, linkVars>>

\* FuturesPool.set_result called with a value (bt.py 45-50)
SetResult(n, v) ==
  /\ LET R == set_result(Pool, n, v)
     IN  /\ fstate' = R.fstate
         /\ raised' = R.err
  /\ UNCHANGED <<futures, task>>
  /\ UNCHANGED <<frameVars, linkVars>>

\* FuturesPool.clear (bt.py 52-55)
Clear ==
  /\ LET R == clear(Pool)
     IN  /\ futures' = R.futures
         /\ fstate' = Collect(R.futures, R.fstate, task)
  /\ UNCHANGED task
  /\ raised' = "none"
  /\ UNCHANGED <<frameVars, linkVars>>

PoolInit ==
  /\ FrameIdle
  /\ LinkUp
  /\ futures = <<>>
  /\ fstate = [f \in FutIds |-> FreeFut]
  /\ task = [t \in Tasks |-> IdleTask]
  /\ raised = "none"

PoolNext ==
  \/ \E t \in Tasks, name \in Names, scoped \in BOOLEAN : Acquire(t, name, scoped)
  \/ \E t \in Tasks : ExitScope(t)
  \/ \E t \in Tasks : StartWait(t)
  \/ \E t \in Tasks, i \in 1..MaxGroup : TimerFire(t, i)
  \/ \E t \in Tasks, i \in 1..MaxGroup : ResumeSub(t, i)
  \/ \E t \in Tasks : OuterResume(t)
  \/ \E n \in Tags, v \in Vals : SetResult(n, v)
  \/ Clear

SpecPool == PoolInit /\ [][PoolNext]_vars


(* ------------------------------------------------------------------ *)
(* Frame protocol engine (jikong.py).  Bytes are integers 0..255.       *)
(* ------------------------------------------------------------------ *)
MIN_RESPONSE_SIZE == 300
MAX_RESPONSE_SIZE == 320
\* the payload capacity of an outbound command frame
COMMAND_CAPACITY == 13

\* HEADER = bytes([0x55, 0xAA, 0xEB, 0x90])
HEADER == <<85, 170, 235, 144>>
\* the outbound magic, bytes([0xAA, 0x55, 0x90, 0xEB])
COMMAND_HEADER == <<170, 85, 144, 235>>

Min(a, b) == IF a < b THEN a ELSE b

\* Python slice s[a:b] of a byte sequence (0-based, clipped to the length)
Slice(s, a, b) == SubSeq(s, a + 1, Min(b, Len(s)))

\* s[a] + ... + s[b], summed by halves to keep the evaluation shallow
RECURSIVE SumRange(_, _, _)
SumRange(s, a, b) ==
  IF a > b THEN 0
  ELSE IF a = b THEN s[a]
  ELSE LET m == (a + b) \div 2 IN SumRange(s, a, m) + SumRange(s, m + 1, b)

\* sum(message_bytes)
Sum(s) == SumRange(s, 1, Len(s))

\* mutation: the checksum leaves out the first byte
calc_crc_skip_first(message_bytes) ==
  SumRange(message_bytes, 2, Len(message_bytes)) % 256

\* calc_crc: sum(message_bytes) & 0xFF
calc_crc(message_bytes) == Sum(message_bytes) % 256

Zeros(n) == [i \in 1..n |-> 0]

\* _jk_command(address, value): the assertion on the length, then
\* header, address, length, value, zero padding, checksum
jk_command(address, value) ==
  IF Len(value) > COMMAND_CAPACITY THEN <<>>
  ELSE LET frame == COMMAND_HEADER \o <<address, Len(value)>> \o value
                      \o Zeros(COMMAND_CAPACITY - Len(value))
       IN  frame \o <<calc_crc(frame)>>

\* mutation: the checksum is compared with the byte before the last
buffer_crc_check_shifted(buf) ==
  IF Len(buf) < MIN_RESPONSE_SIZE THEN "IndexError"
  ELSE IF calc_crc(Slice(buf, 0, MIN_RESPONSE_SIZE - 1)) = buf[MIN_RESPONSE_SIZE - 1] THEN "ok"
  ELSE "bad"

\* _buffer_crc_check: the checksum of the first MIN_RESPONSE_SIZE - 1 bytes
\* against byte MIN_RESPONSE_SIZE - 1; indexing a shorter buffer raises
buffer_crc_check(buf) ==
  IF Len(buf) < MIN_RESPONSE_SIZE THEN "IndexError"
  ELSE IF calc_crc(Slice(buf, 0, MIN_RESPONSE_SIZE - 1)) = buf[MIN_RESPONSE_SIZE] THEN "ok"
  ELSE "bad"

\* the places (1-based) where HEADER occurs in buf
HeaderAt(buf) ==
  {i \in 1..(Len(buf) - 3) :
     buf[i] = HEADER[1] /\ buf[i + 1] = HEADER[2] /\ buf[i + 2] = HEADER[3] /\ buf[i + 3] = HEADER[4]}

\* mutation: the index is one past the place of the header
IndexOfHeader_next(buf) ==
  1 + CHOOSE i \in HeaderAt(buf) : \A j \in HeaderAt(buf) : i <= j

\* self._buffer.index(HEADER)
IndexOfHeader(buf) == CHOOSE i \in HeaderAt(buf) : \A j \in HeaderAt(buf) : i <= j

\* data[0:4] == HEADER
StartsWithHeader(data) == Slice(data, 0, 4) = HEADER

\* _notification_handler up to the decision (jikong.py 71-95): the buffer as
\* it stands at that point and what is decided: "wait" (too short), "accept",
\* "discard", or "IndexError" raised by the second checksum check
notification_handler(buf, data) ==
  LET b1 == (IF StartsWithHeader(data) THEN <<>> ELSE buf) \o data
  IN  IF Len(b1) < MIN_RESPONSE_SIZE THEN [buffer |-> b1, res |-> "wait"]
      ELSE LET crc1 == buffer_crc_check(b1)
           IN  IF crc1 = "ok" THEN [buffer |-> b1, res |-> "accept"]
               ELSE IF HeaderAt(b1) = {} THEN [buffer |-> b1, res |-> "discard"]
               ELSE LET b2 == SubSeq(b1, IndexOfHeader(b1), Len(b1))
                        crc2 == buffer_crc_check(b2)
                    IN  [buffer |-> b2,
                         res |-> IF crc2 = "ok" THEN "accept"
                                 ELSE IF crc2 = "bad" THEN "discard" ELSE "IndexError"]

\* dict[key] = value
Put(F, k, v) == [m \in DOMAIN F \cup {k} |-> IF m = k THEN v ELSE F[m]]

\* one call of _notification_handler(sender, data), _decode_msg included
\* (jikong.py 71-108).  _decode_msg records the message, resolves the
\* correlator and calls the observers; an exception raised by set_result
\* leaves the observers uncalled and the buffer uncleared.
Notify(data) ==
  LET H == notification_handler(buffer, data)
      buf == H.buffer
      resp_type == buf[5]
      R == set_result(Pool, resp_type, buf)
  IN  IF H.res = "accept"
      THEN /\ resp_table' = Put(resp_table, resp_type, buf)
           /\ accepted' = Append(accepted, buf)
           /\ fstate' = R.fstate
           /\ raised' = R.err
           /\ cbcalls' = IF R.err = "none" THEN Append(cbcalls, resp_type) ELSE cbcalls
           /\ buffer' = IF R.err = "none" THEN <<>> ELSE buf
      ELSE /\ UNCHANGED <<resp_table, accepted, fstate, cbcalls>>
           /\ raised' = IF H.res = "IndexError" THEN "IndexError" ELSE "none"
           /\ buffer' = IF H.res = "discard" THEN <<>> ELSE buf

\* the device sends the next k bytes of its stream as one notification
Deliver(k) ==
  /\ k >= 1
  /\ pos + k <= Len(input.stream)
  /\ Notify(SubSeq(input.stream, pos + 1, pos + k))
  /\ pos' = pos + k
  /\ nfrag' = IF nfrag < MaxFrags THEN nfrag + 1 ELSE MaxFrags + 1
  /\ hdrfrags' = IF pos > 0 /\ StartsWithHeader(SubSeq(input.stream, pos + 1, pos + k))
                 THEN hdrfrags + 1 ELSE hdrfrags
  /\ UNCHANGED <<futures, task, input>>
  /\ UNCHANGED linkVars

(* ------------------------------------------------------------------ *)
(* What the device sends.                                              *)
(* ------------------------------------------------------------------ *)
\* the response type of the device-info message
DEVICE_INFO == 3
\* the command that asks for it: _q(cmd=0x97, resp=0x03)
DEVICE_INFO_COMMAND == 151
\* offsets (0-based) at which a test message carries the header bytes inside
\* its payload
MidOffset == 150

\* payload bytes of a test message: 294 bytes after header and type
Body(kind) ==
  LET n == MIN_RESPONSE_SIZE - 6
  IN  CASE kind = "zero" -> Zeros(n)
        [] kind = "ramp" -> [i \in 1..n |-> (i * 7) % 256]
        [] kind = "magic" -> [i \in 1..n |-> IF i + 5 \in (MidOffset + 1)..(MidOffset + 4)
                                                 THEN HEADER[i + 5 - MidOffset] ELSE 0]

\* a valid full message: header, type, payload, checksum
Message(type, kind) ==
  LET m == HEADER \o <<type>> \o Body(kind)
  IN  m \o <<calc_crc(m)>>

BodyKinds == {"zero", "ramp", "magic"}

\* the engine at construction, nothing received, the device about to send inp
FrameStart(inp) ==
  /\ raised = "none"
  /\ buffer = <<>>
  /\ resp_table = <<>>
  /\ cbcalls = <<>>
  /\ accepted = <<>>
  /\ input = inp
  /\ pos = 0
  /\ nfrag = 0
  /\ hdrfrags = 0

\* no caller uses the correlator
PoolEmpty ==
  /\ futures = <<>>
  /\ fstate = [f \in FutIds |-> FreeFut]
  /\ task = [t \in Tasks |-> IdleTask]

\* a caller (as _q does) waits for the device-info response
PoolWaiting ==
  /\ futures = (DEVICE_INFO :> 1)
  /\ fstate = [f \in FutIds |-> IF f = 1 THEN PendingFut ELSE FreeFut]
  /\ task = [t \in Tasks |-> IF t = 1
                THEN [IdleTask EXCEPT !.pc = "waiting", !.name = <<DEVICE_INFO>>, !.scoped = TRUE,
                                      !.subs = <<WaitSub(DEVICE_INFO, 1)>>]
                ELSE IdleTask]

\* SpecFrag: a valid message arrives alone, split in any way
FragInit ==
  /\ PoolEmpty
  /\ LinkUp
  /\ \E kind \in BodyKinds :
        FrameStart([kind |-> "message", stream |-> Message(DEVICE_INFO, kind),
                    msg |-> Message(DEVICE_INFO, kind), glen |-> 0])

FragNext == \E k \in 1..MIN_RESPONSE_SIZE : Deliver(k)

SpecFrag == FragInit /\ [][FragNext]_vars

\* garbage that precedes a message: a byte, a run as long as fits before the
\* header completes a buffer of minimum size, bytes that hold the header, and
\* the byte that makes the first MIN_RESPONSE_SIZE bytes pass the checksum
Garbage(kind) ==
  CASE kind = "byte" -> <<1>>
    [] kind = "long" -> [i \in 1..(MIN_RESPONSE_SIZE - 3) |-> 1]
    [] kind = "magic" -> HEADER \o <<0>>
    [] kind = "crc" -> <<(Message(DEVICE_INFO, "zero")[MIN_RESPONSE_SIZE - 1]
                           - Sum(Slice(Message(DEVICE_INFO, "zero"), 0, MIN_RESPONSE_SIZE - 2))) % 256>>

GarbageKinds == {"byte", "long", "magic", "crc"}

\* byte i (0-based) of m with bit b flipped
FlipBit(m, i, b) ==
  [m EXCEPT ![i + 1] = IF (@ \div (2 ^ b)) % 2 = 1 THEN @ - 2 ^ b ELSE @ + 2 ^ b]

\* the (byte, bit) places flipped in the corrupted test messages
Flips == {<<0, 0>>, <<100, 7>>}

\* a command was written and the session is connected
LinkQueried ==
  /\ wire = <<jk_command(DEVICE_INFO_COMMAND, <<>>)>>
  /\ connected = TRUE
  /\ cpc = "connected"
  /\ attempt = 1
  /\ tries = 0
  /\ scanning = FALSE
  /\ sleeps = <<>>
  /\ lasterr = "none"
  /\ cerr = "none"
  /\ log = <<>>
  /\ visible = TRUE
  /\ keep_alive = FALSE
  /\ subscribed = {CHAR}
  /\ notify = NoNotify

\* SpecResync: a caller waits; the device sends garbage followed by a valid
\* message, a message with one bit flipped followed by a valid message, or
\* two valid messages of the same response type
ResyncInit ==
  /\ PoolWaiting
  /\ LinkQueried
  /\ \/ \E g \in GarbageKinds :
          FrameStart([kind |-> "garbage",
                      stream |-> Garbage(g) \o Message(DEVICE_INFO, "zero"),
                      msg |-> Message(DEVICE_INFO, "zero"), glen |-> Len(Garbage(g))])
     \/ \E kind \in {"zero", "magic"}, f \in Flips :
          FrameStart([kind |-> "corrupt",
                      stream |-> FlipBit(Message(DEVICE_INFO, kind), f[1], f[2])
                                   \o Message(DEVICE_INFO, "ramp"),
                      msg |-> Message(DEVICE_INFO, "ramp"), glen |-> MIN_RESPONSE_SIZE])
     \/ \E kind \in BodyKinds :
          FrameStart([kind |-> "double",
                      stream |-> Message(DEVICE_INFO, "zero") \o Message(DEVICE_INFO, kind),
                      msg |-> Message(DEVICE_INFO, "zero"), glen |-> 0])

\* fragment lengths the device uses here: a few bytes, half a message, the
\* lengths around a whole message, and whatever is left of the stream
ResyncLens == {1, 3, 4, 5, 150, 297, 298, 299, 300, 301, 305}

ResyncNext ==
  \E k \in ResyncLens \cup {Len(input.stream) - pos} : nfrag < MaxFrags /\ Deliver(k)

SpecResync == ResyncInit /\ [][ResyncNext]_vars

\* payloads of every length up to the capacity
PayloadSeeds == {0, 84, 254}
Payloads == {[i \in 1..n |-> (b + i) % 256] : n \in 0..COMMAND_CAPACITY, b \in PayloadSeeds}

\* SpecEncode: the frame the encoder builds is fed to the reassembler
EncodeInit ==
  /\ PoolEmpty
  /\ LinkUp
  /\ \E value \in Payloads :
        FrameStart([kind |-> "command", stream |-> jk_command(DEVICE_INFO_COMMAND, value),
                    msg |-> value, glen |-> 0])

EncodeNext == \E k \in 1..(COMMAND_CAPACITY + 7) : Deliver(k)

SpecEncode == EncodeInit /\ [][EncodeNext]_vars

(* ------------------------------------------------------------------ *)
(* The query _q(cmd=0x97, resp=0x03) (jikong.py 140-145), run by task 1.*)
(* ------------------------------------------------------------------ *)
\* the caller of _q
Q == 1

\* await self.client.write_gatt_char(..., data=frame) returns (jikong.py 142-144)
Write ==
  /\ task[Q].pc = "acquired"
  /\ connected
  /\ wire = <<>>
  /\ wire' = Append(wire, jk_command(DEVICE_INFO_COMMAND, <<>>))
  /\ raised' = "none"
  /\ UNCHANGED <<futures, fstate, task, frameVars, connected, connVars>>

\* the link drops: bleak calls _on_disconnect, which clears the correlator
\* (bt.py 168-175)
LinkLost ==
  /\ connected
  /\ connected' = FALSE
  /\ LET R == clear(Pool)
     IN  /\ futures' = R.futures
         /\ fstate' = Collect(R.futures, R.fstate, task)
  /\ raised' = "none"
  /\ subscribed' = {}
  /\ UNCHANGED <<task, frameVars, wire, cpc, attempt, tries, scanning, sleeps, lasterr, cerr, log,
                 visible, keep_alive, notify>>

\* SpecQuery: one query; the device answers the command with a valid message
\* of the response type, in at most MaxFrags fragments
QueryInit ==
  /\ PoolEmpty
  /\ LinkUp
  /\ \E kind \in BodyKinds :
        FrameStart([kind |-> "reply", stream |-> Message(DEVICE_INFO, kind),
                    msg |-> Message(DEVICE_INFO, kind), glen |-> 0])

\* the write raises: the scope is left before wait_for is reached
QueryAbort == wire = <<>> /\ ExitScope(Q)

\* return await self._fetch_futures.wait_for(resp, self.TIMEOUT) starts
QueryWait == wire # <<>> /\ StartWait(Q)

\* the device, having received the command, sends the next k bytes of the reply
Reply(k) == connected /\ wire # <<>> /\ nfrag < MaxFrags /\ Deliver(k)

QueryNext ==
  \/ Acquire(Q, <<DEVICE_INFO>>, TRUE)
  \/ Write
  \/ QueryAbort
  \/ QueryWait
  \/ TimerFire(Q, 1)
  \/ ResumeSub(Q, 1)
  \/ \E k \in 1..MIN_RESPONSE_SIZE : Reply(k)
  \/ LinkLost

SpecQuery == QueryInit /\ [][QueryNext]_vars

(* ------------------------------------------------------------------ *)
(* _connect_with_scanner (bt.py 212-249).                               *)
(* ------------------------------------------------------------------ *)
\* the cap of the retry loop: if attempt < 8
MaxAttempts == 8

\* mutation: the delay does not grow
Backoff_flat(a) == <<1, 5>>

\* 0.2 * (1.5 ** attempt) as the fraction 3^attempt / (5 * 2^attempt)
Backoff(a) == <<3 ^ a, 5 * (2 ^ a)>>

\* how one pass through the try block ends: the device is not among the
\* discovered ones, client.connect raises, the link is up and _connect_client
\* raises after it (pairing), or the connection is made
AttemptOutcomes == {"NotDiscovered", "ConnectError", "PairError", "ok"}

\* await scanner.start(); attempt = 1
ScannerStart ==
  /\ cpc = "start"
  /\ scanning' = TRUE
  /\ attempt' = 1
  /\ cpc' = "try"
  /\ log' = Append(log, "scan_start")
  /\ UNCHANGED <<futures, fstate, task, raised, frameVars, wire, connected, tries, sleeps, lasterr, cerr>>
  /\ UNCHANGED <<visible, sessVars>>

\* the try block of one loop pass (bt.py 231-239)
Attempt(outcome) ==
  /\ cpc = "try"
  /\ (outcome = "NotDiscovered") <=> ~visible
  /\ log' = IF visible THEN log \o <<"try", "connect">> ELSE Append(log, "try")
  /\ UNCHANGED <<visible, sessVars>>
  /\ tries' = tries + 1
  \* a pass that does not reach or not complete client.connect leaves the link as it is
  /\ connected' = IF outcome \in {"PairError", "ok"} THEN TRUE ELSE connected
  /\ lasterr' = IF outcome = "ok" THEN lasterr ELSE outcome
  /\ cpc' = IF outcome = "ok" THEN "stop" ELSE "cleanup"
  /\ UNCHANGED <<futures, fstate, task, raised, frameVars, wire, attempt, scanning, sleeps, cerr>>

\* except Exception: await self.client.disconnect() (bt.py 240-241).  When it
\* returns the link is down and, if it was up, _on_disconnect has cleared the
\* correlator.  Disconnecting a link that is up may itself raise: the
\* exception leaves the function from inside the handler.
Cleanup(ok) ==
  /\ cpc = "cleanup"
  /\ log' = Append(log, "disconnect")
  /\ subscribed' = IF ok THEN {} ELSE subscribed
  /\ UNCHANGED <<visible, keep_alive, notify>>
  /\ (~ok) => connected
  /\ IF ok
     THEN /\ connected' = FALSE
          /\ LET R == IF connected THEN clear(Pool) ELSE Pool
             IN  /\ futures' = R.futures
                 /\ fstate' = Collect(R.futures, R.fstate, task)
          /\ cpc' = IF attempt < MaxAttempts THEN "sleep" ELSE "stop_raise"
          /\ cerr' = cerr
     ELSE /\ cerr' = "DisconnectError"
          /\ cpc' = "failed"
          /\ UNCHANGED <<futures, fstate, connected>>
  /\ UNCHANGED <<task, raised, frameVars, wire, attempt, tries, scanning, sleeps, lasterr>>

\* await asyncio.sleep(0.2 * (1.5 ** attempt)); attempt += 1 (bt.py 242-245)
Sleep ==
  /\ cpc = "sleep"
  /\ log' = Append(log, "sleep")
  /\ UNCHANGED <<visible, sessVars>>
  /\ sleeps' = Append(sleeps, Backoff(attempt))
  /\ attempt' = attempt + 1
  /\ cpc' = "try"
  /\ UNCHANGED <<futures, fstate, task, raised, frameVars, wire, connected, tries, scanning, lasterr, cerr>>

\* await scanner.stop(), then raise (bt.py 246-248) or return (bt.py 249)
ScannerStop ==
  /\ cpc \in {"stop", "stop_raise"}
  /\ log' = Append(log, "scan_stop")
  /\ UNCHANGED <<visible, sessVars>>
  /\ scanning' = FALSE
  /\ cpc' = IF cpc = "stop" THEN "connected" ELSE "failed"
  /\ cerr' = IF cpc = "stop" THEN cerr ELSE lasterr
  /\ UNCHANGED <<futures, fstate, task, raised, frameVars, wire, connected, attempt, tries, sleeps, lasterr>>

\* the scanner sees the target appear or disappear
Advertise ==
  /\ scanning
  /\ cpc \in {"try", "sleep"}
  /\ visible' = ~visible
  /\ UNCHANGED <<futures, fstate, task, raised, frameVars, wire, connected, cpc, attempt, tries,
                 scanning, sleeps, lasterr, cerr, log, sessVars>>

\* the caller's task is cancelled while it awaits the connect of an attempt or
\* the backoff sleep: CancelledError is no Exception, so the handler of the
\* loop does not catch it and it leaves the function (bt.py 238-243).  A
\* connect that is cut short may or may not have brought the link up.
CancelConnect(up) ==
  /\ cpc \in {"try", "sleep"}
  /\ (cpc = "sleep" \/ ~visible) => ~up
  /\ connected' = up
  /\ cerr' = "CancelledError"
  /\ cpc' = "cancelled"
  /\ log' = IF cpc = "try" /\ visible THEN log \o <<"try", "connect">> ELSE log
  /\ UNCHANGED <<futures, fstate, task, raised, frameVars, wire, attempt, tries, scanning, sleeps,
                 lasterr, visible, sessVars>>

\* SpecConn: a session that is not connected runs _connect_with_scanner
ConnInit ==
  /\ PoolEmpty
  /\ FrameIdle
  /\ raised = "none"
  /\ wire = <<>>
  /\ connected = FALSE
  /\ cpc = "start"
  /\ attempt = 1
  /\ tries = 0
  /\ scanning = FALSE
  /\ sleeps = <<>>
  /\ lasterr = "none"
  /\ cerr = "none"
  /\ log = <<>>
  /\ visible \in BOOLEAN
  /\ keep_alive = FALSE
  /\ subscribed = {}
  /\ notify = NoNotify

ConnNext ==
  \/ ScannerStart
  \/ \E outcome \in AttemptOutcomes : Attempt(outcome)
  \/ \E ok \in BOOLEAN : Cleanup(ok)
  \/ Sleep
  \/ ScannerStop
  \/ Advertise
  \/ \E up \in BOOLEAN : CancelConnect(up)

SpecConn == ConnInit /\ [][ConnNext]_vars

(* ------------------------------------------------------------------ *)
(* start_notify (bt.py 148-159) and JKBt.connect (jikong.py 110-134).   *)
(* ------------------------------------------------------------------ *)
\* start_notify(char_specifier, callback) with client.start_notify raising on
\* the candidates in fails: the candidates are tried in order, the first that
\* succeeds is returned; if none succeeds the exception kept is the one
\* assigned last
start_notify(cands, fails) ==
  LET good == {i \in DOMAIN cands : cands[i] \notin fails}
  IN  IF good # {}
      THEN LET i == CHOOSE j \in good : \A k \in good : j <= k
           IN  [cands |-> cands, fails |-> fails, tried |-> SubSeq(cands, 1, i),
                ret |-> <<cands[i]>>, err |-> <<>>]
      ELSE [cands |-> cands, fails |-> fails, tried |-> cands,
            ret |-> <<>>, err |-> <<cands[Len(cands)]>>]

\* the characteristic identifiers and the longest candidate list
MaxChars == 3
MaxCands == 3
Chars == 1..MaxChars
CandLists == UNION {[1..n -> Chars] : n \in 1..MaxCands}

\* one call of start_notify with the candidates and failures of notify
StartNotify ==
  /\ cpc = "notify_start"
  /\ LET R == start_notify(notify.cands, notify.fails)
     IN  /\ notify' = R
         /\ subscribed' = IF R.ret # <<>> THEN subscribed \cup {R.ret[1]} ELSE subscribed
         /\ cerr' = IF R.ret # <<>> THEN cerr ELSE "NotifyError"
         /\ log' = IF R.ret # <<>> THEN log ELSE Append(log, "enumerate_services")
  /\ cpc' = "notify_done"
  /\ UNCHANGED <<futures, fstate, task, raised, frameVars, wire, connected, attempt, tries, scanning,
                 sleeps, lasterr, visible, keep_alive>>

\* SpecNotify: a connected session calls start_notify with a list of
\* candidates, on some of which subscribing fails
NotifyInit ==
  /\ PoolEmpty
  /\ FrameIdle
  /\ raised = "none"
  /\ wire = <<>>
  /\ connected = TRUE
  /\ cpc = "notify_start"
  /\ attempt = 1
  /\ tries = 0
  /\ scanning = FALSE
  /\ sleeps = <<>>
  /\ lasterr = "none"
  /\ cerr = "none"
  /\ log = <<>>
  /\ visible = TRUE
  /\ keep_alive = FALSE
  /\ subscribed = {}
  /\ \E cands \in CandLists, fails \in SUBSET Chars :
        notify = [NoNotify EXCEPT !.cands = cands, !.fails = fails]

NotifyNext == StartNotify

SpecNotify == NotifyInit /\ [][NotifyNext]_vars

\* try: await super().connect(timeout=6) (jikong.py 118-122): the connection
\* is made, or _connect_client raises with the link down or up and the
\* scan-assisted connect takes over
DirectConnect(outcome) ==
  /\ cpc = "jk_start"
  /\ outcome # "NotDiscovered"
  /\ log' = Append(log, "connect")
  /\ connected' = (outcome \in {"PairError", "ok"})
  /\ lasterr' = IF outcome = "ok" THEN lasterr ELSE outcome
  /\ cpc' = IF outcome = "ok" THEN "connected" ELSE "start"
  /\ UNCHANGED <<futures, fstate, task, raised, frameVars, wire, attempt, tries, scanning, sleeps,
                 cerr, visible, sessVars>>

\* await self.start_notify(self.char_handle_notify, self._notification_handler)
\* (jikong.py 126-132); an exception leaves connect
Subscribe(fails) ==
  /\ cpc = "connected"
  /\ LET R == start_notify(<<CHAR>>, fails)
     IN  /\ notify' = R
         /\ subscribed' = IF R.ret # <<>> THEN subscribed \cup {R.ret[1]} ELSE subscribed
         /\ cpc' = IF R.ret # <<>> THEN "querying" ELSE "connect_failed"
         /\ cerr' = IF R.ret # <<>> THEN cerr ELSE "NotifyError"
         /\ log' = IF R.ret # <<>> THEN Append(log, "start_notify")
                   ELSE log \o <<"start_notify", "enumerate_services">>
  /\ UNCHANGED <<futures, fstate, task, raised, frameVars, wire, connected, attempt, tries, scanning,
                 sleeps, lasterr, visible, keep_alive>>

\* await self._q(cmd=0x97, resp=0x03) starts (jikong.py 134)
SetupAcquire == cpc = "querying" /\ Acquire(Q, <<DEVICE_INFO>>, TRUE)

\* the device answers the command with the whole message in one notification
SetupReply == Reply(MIN_RESPONSE_SIZE)

\* _q has returned or raised: connect returns, or the exception leaves it
QueryEnd ==
  /\ cpc = "querying"
  /\ task[Q].pc = "done"
  /\ cpc' = IF task[Q].outcome = "value" THEN "ready" ELSE "connect_failed"
  /\ cerr' = IF task[Q].outcome = "value" THEN cerr ELSE task[Q].outcome
  /\ UNCHANGED <<futures, fstate, task, raised, frameVars, wire, connected, attempt, tries, scanning,
                 sleeps, lasterr, log, visible, sessVars>>

\* SpecSetup: a constructed session runs JKBt.connect
SetupInit ==
  /\ PoolEmpty
  /\ FrameStart([kind |-> "reply", stream |-> Message(DEVICE_INFO, "zero"),
                 msg |-> Message(DEVICE_INFO, "zero"), glen |-> 0])
  /\ wire = <<>>
  /\ connected = FALSE
  /\ cpc = "jk_start"
  /\ attempt = 1
  /\ tries = 0
  /\ scanning = FALSE
  /\ sleeps = <<>>
  /\ lasterr = "none"
  /\ cerr = "none"
  /\ log = <<>>
  /\ visible \in BOOLEAN
  /\ keep_alive = FALSE
  /\ subscribed = {}
  /\ notify = NoNotify

SetupNext ==
  \/ \E outcome \in AttemptOutcomes : DirectConnect(outcome)
  \/ ScannerStart
  \/ \E outcome \in AttemptOutcomes : Attempt(outcome)
  \/ \E ok \in BOOLEAN : Cleanup(ok)
  \/ Sleep
  \/ ScannerStop
  \/ Advertise
  \/ \E fails \in SUBSET {CHAR} : Subscribe(fails)
  \/ SetupAcquire
  \/ Write
  \/ QueryAbort
  \/ QueryWait
  \/ TimerFire(Q, 1)
  \/ ResumeSub(Q, 1)
  \/ SetupReply
  \/ QueryEnd

SpecSetup == SetupInit /\ [][SetupNext]_vars

(* ------------------------------------------------------------------ *)
(* The scoped-usage block: async with bms (bt.py 251-277,               *)
(* jikong.py 136-138).  cpc is "outside" or "inside" the block.         *)
(* ------------------------------------------------------------------ *)
\* how often the block is entered
MaxEnters == 2

\* __aenter__ returns at once if self.keep_alive and self.is_connected,
\* and connects otherwise (bt.py 258-262)
aenter_connects(keep, conn) == ~(keep /\ conn)

\* mutation: __aexit__ ignores keep_alive
aexit_ignores_keep(keep, conn) == conn

\* __aexit__ returns at once if self.keep_alive, and disconnects if
\* self.client.is_connected (bt.py 264-269)
aexit_disconnects(keep, conn) == (~keep) /\ conn

Count(l, x) == Cardinality({i \in DOMAIN l : l[i] = x})

\* set_keep_alive(keep) (bt.py 274-277)
SetKeepAlive(keep) ==
  /\ cpc \in {"outside", "inside"}
  /\ keep # keep_alive
  /\ keep_alive' = keep
  /\ UNCHANGED <<futures, fstate, task, raised, frameVars, wire, connected, cpc, attempt, tries,
                 scanning, sleeps, lasterr, cerr, log, visible, subscribed, notify>>

\* async with bms: __aenter__.  The connect, when one is made, is the one of
\* JKBt.connect that succeeds: the link is up and notifications are subscribed.
AEnter ==
  /\ cpc = "outside"
  /\ Count(log, "enter") < MaxEnters
  /\ cpc' = "inside"
  /\ IF aenter_connects(keep_alive, connected)
     THEN /\ log' = log \o <<"enter", "connect">>
          /\ connected' = TRUE
          /\ subscribed' = {CHAR}
     ELSE /\ log' = Append(log, "enter")
          /\ UNCHANGED <<connected, subscribed>>
  /\ UNCHANGED <<futures, fstate, task, raised, frameVars, wire, attempt, tries, scanning, sleeps,
                 lasterr, cerr, visible, keep_alive, notify>>

\* the end of the block: __aexit__, and JKBt.disconnect when it is called:
\* stop_notify, client.disconnect, FuturesPool.clear
AExit ==
  /\ cpc = "inside"
  /\ cpc' = "outside"
  /\ IF aexit_disconnects(keep_alive, connected)
     THEN /\ log' = log \o <<"exit", "stop_notify", "disconnect">>
          /\ connected' = FALSE
          /\ subscribed' = {}
          /\ LET R == clear(Pool)
             IN  /\ futures' = R.futures
                 /\ fstate' = Collect(R.futures, R.fstate, task)
     ELSE /\ log' = Append(log, "exit")
          /\ UNCHANGED <<connected, subscribed, futures, fstate>>
  /\ UNCHANGED <<task, raised, frameVars, wire, attempt, tries, scanning, sleeps, lasterr, cerr,
                 visible, keep_alive, notify>>

\* SpecScope: a constructed session, not connected, used through the block
\* while callers query
ScopeInit ==
  /\ PoolEmpty
  /\ FrameIdle
  /\ raised = "none"
  /\ wire = <<>>
  /\ connected = FALSE
  /\ cpc = "outside"
  /\ attempt = 1
  /\ tries = 0
  /\ scanning = FALSE
  /\ sleeps = <<>>
  /\ lasterr = "none"
  /\ cerr = "none"
  /\ log = <<>>
  /\ visible = TRUE
  /\ keep_alive \in BOOLEAN
  /\ subscribed = {}
  /\ notify = NoNotify

\* a caller starts a query on the connected session
ScopeAcquire(t, n) == connected /\ Acquire(t, <<n>>, TRUE)

ScopeNext ==
  \/ \E keep \in BOOLEAN : SetKeepAlive(keep)
  \/ AEnter
  \/ AExit
  \/ \E t \in Tasks, n \in Tags : ScopeAcquire(t, n)
  \/ \E t \in Tasks : StartWait(t)
  \/ \E t \in Tasks : TimerFire(t, 1)
  \/ \E t \in Tasks : ResumeSub(t, 1)
  \/ LinkLost

SpecScope == ScopeInit /\ [][ScopeNext]_vars

(* ------------------------------------------------------------------ *)
(* Properties of the correlator, checked under SpecPool.               *)
(* ------------------------------------------------------------------ *)
\* a sub-wait that is suspended on a future nobody has completed yet
Outstanding(t, i) ==
  /\ i \in DOMAIN task[t].subs
  /\ task[t].subs[i].st = "waiting"
  /\ fstate[task[t].subs[i].fid].st = "pending"

\* C1: acquire of a tag that is not pending succeeds and makes it pending; an
\* acquire of a pending tag fails with the assertion error and leaves the
\* first entry, its future and the future's state as they were, so that a
\* set_result on the tag still completes the first wait.
C1_AcquireOnce ==
  [][\A t \in Tasks, n \in Tags, s \in BOOLEAN :
       Acquire(t, <<n>>, s) =>
         IF n \notin DOMAIN futures
         THEN /\ task'[t].pc = "acquired"
              /\ n \in DOMAIN futures'
              /\ fstate'[futures'[n]].st = "pending"
              /\ \A m \in DOMAIN futures : futures'[m] = futures[m]
         ELSE /\ task'[t].pc = "failed"
              /\ task'[t].exc = "AssertionError"
              /\ futures' = futures
              /\ fstate' = fstate
              /\ fstate[futures[n]].st = "pending" =>
                    \A v \in Vals :
                      set_result([futures |-> futures', fstate |-> fstate'], n, v).fstate[futures[n]]
                        = [st |-> "result", val |-> v]]_vars

\* C1 witness: a second acquire of a tag has failed while the first wait for
\* the tag is still registered and unresolved
C1_Witness ==
  \E t, u \in Tasks :
     /\ t # u
     /\ task[t].pc = "failed" /\ Len(task[t].name) = 1
     /\ task[u].pc \in {"acquired", "waiting"} /\ task[u].name = task[t].name
     /\ task[t].name[1] \in DOMAIN futures
     /\ fstate[futures[task[t].name[1]]].st = "pending"

\* C2: acquire of a tuple of which some sub-tag is already pending fails and
\* leaves no sub-tag of the tuple newly registered
C2_GroupAllOrNothing ==
  [][\A t \in Tasks, name \in Names, s \in BOOLEAN :
       (Acquire(t, name, s) /\ Len(name) > 1 /\ \E i \in DOMAIN name : name[i] \in DOMAIN futures)
         => /\ task'[t].pc = "failed"
            /\ DOMAIN futures' = DOMAIN futures]_vars

\* C3: when a wait ends by a value, a timeout or a cancellation, no name of
\* the wait is registered in the correlator any more
C3_WaitEndRemoves ==
  [][\A t \in Tasks :
       (task[t].pc \in {"acquired", "waiting"} /\ task'[t].pc = "done"
          /\ task'[t].outcome \in {"value", "TimeoutError", "CancelledError"})
         => \A i \in DOMAIN task[t].name : task[t].name[i] \notin DOMAIN futures']_vars

\* C4: clear leaves no entry, every wait outstanding at that moment then ends
\* by cancellation (its future is cancelled, so its timer plays no part), and
\* an acquire of any tag succeeds afterwards
C4_ClearFailsAllWaits ==
  [][Clear =>
       /\ futures' = <<>>
       /\ \A t \in Tasks, i \in 1..MaxGroup :
            Outstanding(t, i) =>
              /\ fstate'[task[t].subs[i].fid].st = "cancelled"
              /\ EndOf(task'[t].subs[i], fstate').exc = "CancelledError"
       /\ \A n \in Tags : acquire([futures |-> futures', fstate |-> fstate'], <<n>>).err = "none"]_vars

(* ------------------------------------------------------------------ *)
(* Properties of the frame engine.                                     *)
(* ------------------------------------------------------------------ *)
Delivered == pos = Len(input.stream)

\* C5 as stated: however a valid message is split, exactly one message is
\* accepted, the original
C5_AnySplit ==
  (input.kind = "message" /\ Delivered) => accepted = <<input.msg>>

\* C5 amended: if no fragment after the first begins with the header, nothing
\* is accepted before the last fragment and the last fragment makes the
\* handler accept exactly the original message, record it and empty the buffer
C5_SplitWithoutHeaderFragment ==
  (input.kind = "message" /\ hdrfrags = 0) =>
     IF Delivered
     THEN /\ accepted = <<input.msg>>
          /\ resp_table = (DEVICE_INFO :> input.msg)
          /\ cbcalls = <<DEVICE_INFO>>
          /\ buffer = <<>>
     ELSE /\ accepted = <<>>
          /\ buffer = SubSeq(input.stream, 1, pos)

\* C5 witness: a message whose payload holds the header bytes has arrived in
\* more than MaxFrags fragments and was accepted
C5_Witness ==
  /\ input.kind = "message" /\ Delivered /\ nfrag > MaxFrags /\ hdrfrags = 0
  /\ input.msg = Message(DEVICE_INFO, "magic")
  /\ accepted = <<input.msg>>

\* the garbage holds no header and the first MIN_RESPONSE_SIZE bytes of the
\* stream do not pass the checksum
PlainGarbage ==
  /\ input.kind = "garbage"
  /\ \A i \in HeaderAt(input.stream) : i > input.glen
  /\ buffer_crc_check(Slice(input.stream, 0, MIN_RESPONSE_SIZE)) = "bad"

C7_CorruptedDropped ==
  [][input.kind = "corrupt" =>
       /\ (pos = 0 /\ pos' = MIN_RESPONSE_SIZE) =>
             /\ accepted' = <<>>
             /\ fstate'[1] = PendingFut
             /\ cbcalls' = <<>>
             /\ buffer' = <<>>
       /\ (pos = MIN_RESPONSE_SIZE /\ nfrag = 1 /\ pos' = 2 * MIN_RESPONSE_SIZE) =>
             /\ accepted' = <<input.msg>>
             /\ fstate'[1] = [st |-> "result", val |-> input.msg]
             /\ buffer' = <<>>]_vars

\* C8 as stated: the encoder's frame, fed through the reassembler, is accepted
\* and yields the payload
C8_RoundTrip ==
  (input.kind = "command" /\ Delivered) =>
     /\ Len(accepted) = 1
     /\ SubSeq(accepted[1], 7, 6 + Len(input.msg)) = input.msg

\* C8 amended: the frame has 20 bytes, the outbound header, the address, the
\* length and the payload padded with zeros, and its last byte is the sum
\* modulo 256 of the bytes before it, so the payload is read back from the
\* frame; the reassembler never accepts it and keeps the bytes delivered
C8_FrameChecksum ==
  input.kind = "command" =>
     LET frame == input.stream
         n == frame[6]
     IN  /\ Len(frame) = COMMAND_CAPACITY + 7
         /\ SubSeq(frame, 1, 4) = COMMAND_HEADER
         /\ frame[5] = DEVICE_INFO_COMMAND
         /\ SubSeq(frame, 7, 6 + n) = input.msg
         /\ \A i \in (7 + n)..(COMMAND_CAPACITY + 6) : frame[i] = 0
         /\ frame[Len(frame)] = Sum(SubSeq(frame, 1, Len(frame) - 1)) % 256
         /\ accepted = <<>>
         /\ resp_table = <<>>
         /\ buffer = SubSeq(frame, 1, pos)

\* C8 witness: a frame with a payload of full capacity was delivered in
\* single bytes
C8_Witness ==
  /\ input.kind = "command" /\ Delivered
  /\ Len(input.msg) = COMMAND_CAPACITY
  /\ nfrag > MaxFrags
  /\ accepted = <<>>

\* the wait of the query has timed out
TimedOut ==
  \/ task[Q].pc = "waiting" /\ task[Q].subs[1].timer
  \/ task[Q].outcome = "TimeoutError"

\* the reply has arrived whole, the link is up and the timer has not fired
Replied == input.kind = "reply" /\ Delivered /\ connected /\ ~TimedOut

\* the query holds the reply: its future is resolved with it, or it has
\* returned it and the tag is no longer registered
QueryHolds(msg) ==
  \/ /\ task[Q].pc = "acquired"
     /\ DEVICE_INFO \in DOMAIN futures
     /\ fstate[futures[DEVICE_INFO]] = [st |-> "result", val |-> msg]
  \/ /\ task[Q].pc = "waiting"
     /\ fstate[task[Q].subs[1].fid] = [st |-> "result", val |-> msg]
  \/ /\ task[Q].pc = "done"
     /\ task[Q].outcome = "value"
     /\ task[Q].val = msg
     /\ DEVICE_INFO \notin DOMAIN futures

\* the command is written only by a query that has registered its wait
WriteAfterAcquire ==
  wire # <<>> => /\ wire = <<jk_command(DEVICE_INFO_COMMAND, <<>>)>>
                 /\ task[Q].pc \in {"acquired", "waiting", "done"}
                 /\ task[Q].name = <<DEVICE_INFO>>

\* C9 as stated: the wait is registered before the command is written, and
\* for every split of the reply the query returns it and the tag is free
C9_QueryAnySplit ==
  /\ WriteAfterAcquire
  /\ Replied => QueryHolds(input.msg)

\* C9 amended: the wait is registered before the command is written, and
\* when the reply arrives before the timeout in fragments of which none after
\* the first begins with the header, the query returns exactly the reply and
\* the tag is no longer registered
C9_QueryReturnsReply ==
  /\ WriteAfterAcquire
  /\ (Replied /\ hdrfrags = 0) => QueryHolds(input.msg)

\* C9 witness: the reply arrived in two fragments and the query returned it
C9_Witness ==
  /\ Replied /\ nfrag = 2 /\ hdrfrags = 0
  /\ task[Q].pc = "done"
  /\ task[Q].outcome = "value"
  /\ task[Q].val = input.msg
  /\ DEVICE_INFO \notin DOMAIN futures

(* ------------------------------------------------------------------ *)
(* Properties of the scan-assisted connect, checked under SpecConn.     *)
(* ------------------------------------------------------------------ *)
\* C10: at most MaxAttempts attempts are made; when the connect has failed,
\* the error raised is the error of the last attempt, the link is
\* disconnected, and no sleep followed the last attempt
C10_RetryExhaustion ==
  /\ tries <= MaxAttempts
  /\ cpc = "failed" =>
        /\ cerr = lasterr
        /\ ~connected
        /\ Len(sleeps) = tries - 1

\* the fraction x is smaller than the fraction y
Less(x, y) == x[1] * y[2] < y[1] * x[2]

\* what the log says about the retry loop: a pass through the try block
\* that is not the first follows a disconnect and then a sleep, and a
\* disconnect follows a pass that failed
LoopOrder ==
  \A i \in DOMAIN log :
     /\ (log[i] = "try" /\ i > 2) =>
           /\ log[i - 1] = "sleep"
           /\ log[i - 2] = "disconnect"
     /\ log[i] = "sleep" => log[i - 1] = "disconnect"
     /\ log[i] = "disconnect" => log[i - 1] \in {"try", "connect"}
     /\ log[i] = "connect" => log[i - 1] = "try"

\* C11: the k-th sleep is 0.2 * 1.5^k (3^k / (5 * 2^k)) and longer than the
\* one before; every retry follows a disconnect and then one sleep; the
\* transport connect is called only while the target is visible; and when an
\* attempt succeeds after N < MaxAttempts failures the operation returns with
\* the link up, N sleeps made and no error
C11_Backoff ==
  [][/\ (Len(log') > Len(log) /\ log'[Len(log')] = "connect") => visible
     /\ (\A k \in DOMAIN sleeps' : sleeps'[k] = <<3 ^ k, 5 * (2 ^ k)>>)
     /\ (\A k \in DOMAIN sleeps' : k > 1 => Less(sleeps'[k - 1], sleeps'[k]))
     /\ LoopOrder'
     /\ (cpc' = "try" => Len(sleeps') = tries' /\ (tries' > 0 => ~connected'))
     /\ (cpc' = "connected" =>
           /\ connected'
           /\ cerr' = "none"
           /\ tries' <= MaxAttempts
           /\ Len(sleeps') = tries' - 1)]_vars

\* C11 witness: the attempt after MaxAttempts - 1 failures succeeded and the
\* operation returned
C11_Witness ==
  /\ cpc = "connected"
  /\ connected
  /\ tries = MaxAttempts
  /\ Len(sleeps) = MaxAttempts - 1

\* C12: when _connect_with_scanner has ended, by return, by an exception or
\* by cancellation, the scanner it started is stopped
C12_ScannerStopped ==
  cpc \in {"connected", "failed", "cancelled"} => ~scanning

\* C13: a query that has written its command and whose link dropped before
\* any reply was accepted ends with TimeoutError or CancelledError, leaves no
\* entry in the correlator, and the session starts no connect
C13_DisconnectFailsQuery ==
  [][(/\ ~connected /\ wire # <<>> /\ accepted = <<>>
      /\ task[Q].pc \in {"acquired", "waiting"}
      /\ task'[Q].pc = "done")
       => /\ task'[Q].outcome \in {"TimeoutError", "CancelledError"}
          /\ futures' = <<>>
          /\ cpc' = cpc /\ tries' = tries /\ log' = log]_vars

\* C14: whatever fragments arrive, garbage, corrupted or misaligned, no call
\* of the fragment handler ends with an exception
C14_HandlerNeverRaises ==
  input.kind \in {"garbage", "corrupt"} => raised = "none"

C16_FailedConnectReleases ==
  (cpc = "connect_failed" /\ cerr \in {"NotifyError", "TimeoutError"}) =>
     /\ ~connected
     /\ subscribed = {}
     /\ futures = <<>>

\* C17: start_notify tries the candidates in order; it subscribes on and
\* returns the first on which subscribing succeeds and tries none after it;
\* if subscribing fails on every candidate it raises the error of the first
C17_NotifyFallback ==
  cpc = "notify_done" =>
     LET c == notify.cands
         good == {i \in DOMAIN c : c[i] \notin notify.fails}
     IN  IF good # {}
         THEN \E i \in good :
                 /\ \A j \in good : i <= j
                 /\ notify.ret = <<c[i]>>
                 /\ notify.tried = SubSeq(c, 1, i)
                 /\ subscribed = {c[i]}
                 /\ notify.err = <<>>
         ELSE /\ notify.tried = c
              /\ notify.ret = <<>>
              /\ subscribed = {}
              /\ notify.err = <<c[1]>>

\* C18: when a wait ends while the entry registered under its tag belongs to
\* a later acquire (holds another future), that entry stays registered
C18_CleanupOwnEntry ==
  [][\A t \in Tasks, i \in 1..MaxGroup :
       (/\ i \in DOMAIN task[t].subs
        /\ task[t].subs[i].st = "waiting"
        /\ i \in DOMAIN task'[t].subs
        /\ task'[t].subs[i].st # "waiting"
        /\ task[t].subs[i].tag \in DOMAIN futures
        /\ futures[task[t].subs[i].tag] # task[t].subs[i].fid)
         => /\ task[t].subs[i].tag \in DOMAIN futures'
            /\ futures'[task[t].subs[i].tag] = futures[task[t].subs[i].tag]]_vars

\* C19: with a wait registered for the tag and not yet resumed, every step
\* in which a whole valid message of that tag arrives and is accepted raises
\* nothing, leaves the waiter with the first message, clears the buffer and
\* calls the observers of the tag
C19_ResolveAnyTime ==
  [][(/\ input.kind = "double"
      /\ pos % MIN_RESPONSE_SIZE = 0
      /\ pos' = pos + MIN_RESPONSE_SIZE
      /\ Len(accepted') = Len(accepted) + 1) =>
       /\ raised' = "none"
       /\ fstate'[1] = [st |-> "result", val |-> input.msg]
       /\ buffer' = <<>>
       /\ cbcalls' = Append(cbcalls, DEVICE_INFO)]_vars

\* C20: every accepted message begins with the inbound magic header and its
\* checksum byte equals the sum modulo 256 of the bytes before it
C20_AcceptedWellFormed ==
  \A i \in 1..Len(accepted) :
     /\ StartsWithHeader(accepted[i])
     /\ buffer_crc_check(accepted[i]) = "ok"

====
